---- MODULE Spec2Model ----
(***************************************************************************)
(* Model of the Reddit scraper service: the credential resolver and the   *)
(* scrape orchestrator of reddit_scraper.py (RedditScraper), and the       *)
(* /scrape and /test-credentials endpoints of main.py.                     *)
(*                                                                         *)
(* Python dictionaries (the request config, a source descriptor, the       *)
(* process environment, a post record) are functions from key strings to   *)
(* values; a key that is absent is absent from the DOMAIN, so dict.get and  *)
(* os.getenv are modelled with their defaults.                              *)
(***************************************************************************)
EXTENDS Integers, Sequences, FiniteSets, TLC

VARIABLES
    config,     \* request.config (models.py ScrapeRequest.config)
    env,        \* the process environment read by os.getenv
    pc,         \* position of the request handler
    creds,      \* client_id / client_secret / user_agent of _setup_reddit_client
    tag,        \* credentials_source of the /test-credentials response
    reddit,     \* self.reddit: which praw.Reddit construction it holds
    idx,        \* the i of fetch_data's enumerate(sources, 1)
    data,       \* the data list of fetch_data
    outcomes,   \* per processed source: what _fetch_source did
    calls,      \* upstream client calls and time.sleep calls, in order
    fd,         \* state of the fetch_data call
    response    \* the HTTP answer of the endpoint

vars == <<config, env, pc, creds, tag, reddit, idx, data, outcomes, calls, fd, response>>

----------------------------------------------------------------------------
(* Bounds of the model *)

MaxSources == 2      \* longest source list of a request
MaxUpstream == 2     \* most submissions a subreddit listing holds

----------------------------------------------------------------------------
(* Python values and dictionaries *)

\* Python's None (also the result of dict.get / os.getenv on an absent key).
None == "<None>"

\* Truthiness of a string-or-None value: None and "" are falsy.
Truthy(v) == v # None /\ v # ""

\* dict.get(key, default)
Get(d, k, default) == IF k \in DOMAIN d THEN d[k] ELSE default

\* os.getenv(key, default): the default is returned only when the variable is
\* unset; a variable set to the empty string is returned as "".
Getenv(e, k, default) == IF k \in DOMAIN e THEN e[k] ELSE default

\* Python's `a or b`: a when a is truthy, otherwise b.
\* Faulty variant: the later alternative wins.
OrMutEnvFirst(a, b) == IF Truthy(b) THEN b ELSE a
Or(a, b) == IF Truthy(a) THEN a ELSE b

\* All dictionaries over a subset of Keys with values in Vals.
Dicts(Keys, Vals) == UNION { [S -> Vals] : S \in SUBSET Keys }

Min(a, b) == IF a <= b THEN a ELSE b

----------------------------------------------------------------------------
(* Credential resolver: RedditScraper._setup_reddit_client, lines 17-43 *)

DefaultUserAgent == "RedditScraper/1.0"

ResolveCredentials(cfg, e) ==
    [ client_id |->
        Or(Or(Get(cfg, "client_id", None), Get(cfg, "clientId", None)),
           Getenv(e, "REDDIT_CLIENT_ID", None)),
      client_secret |->
        Or(Or(Get(cfg, "client_secret", None), Get(cfg, "clientSecret", None)),
           Getenv(e, "REDDIT_CLIENT_SECRET", None)),
      user_agent |->
        Or(Or(Get(cfg, "user_agent", None), Get(cfg, "userAgent", None)),
           Getenv(e, "REDDIT_USER_AGENT", DefaultUserAgent)) ]

\* `if not client_id or not client_secret: raise ValueError(...)`
\* Faulty variant: raises only when both are missing.
CredentialsMissingMutBoth(c) == ~Truthy(c.client_id) /\ ~Truthy(c.client_secret)
CredentialsMissing(c) == ~Truthy(c.client_id) \/ ~Truthy(c.client_secret)

----------------------------------------------------------------------------
(* POST /test-credentials: main.py test_credentials *)

HasConfig(cfg, snake, camel) ==
    Truthy(Or(Get(cfg, snake, None), Get(cfg, camel, None)))

HasEnv(e, name) == Truthy(Getenv(e, name, None))

\* Faulty variant: the config is tested before the environment.
CredentialsSourceMutConfigFirst(cfg, e) ==
    IF HasConfig(cfg, "client_id", "clientId")
       /\ HasConfig(cfg, "client_secret", "clientSecret")
    THEN "config"
    ELSE IF HasEnv(e, "REDDIT_CLIENT_ID") /\ HasEnv(e, "REDDIT_CLIENT_SECRET")
         THEN "environment"
         ELSE "none"
CredentialsSource(cfg, e) ==
    IF HasEnv(e, "REDDIT_CLIENT_ID") /\ HasEnv(e, "REDDIT_CLIENT_SECRET")
    THEN "environment"
    ELSE IF HasConfig(cfg, "client_id", "clientId")
            /\ HasConfig(cfg, "client_secret", "clientSecret")
         THEN "config"
         ELSE "none"

----------------------------------------------------------------------------
(* Client construction: RedditScraper._setup_reddit_client, lines 14-66 *)

MissingCredentialsMsg == "Missing Reddit API credentials"
NoSourcesMsg == "No sources configured"
NameRequiredMsg == "Subreddit name is required"
UnsupportedTypeMsg == "Unsupported source type"
UpstreamMsg == "upstream error"

Call(op, i) == [op |-> op, idx |-> i]

\* What the praw calls of _setup_reddit_client do: the first praw.Reddit(...)
\* may raise, reddit.user.me() may raise, and the praw.Reddit(...) of the
\* except branch may raise (nothing catches that one).
SetupBehaviours == [first : {"ok", "ctor_raises", "me_raises"}, second : {"ok", "raises"}]

SetupRedditClient(cfg, e, up) ==
    LET c == ResolveCredentials(cfg, e) IN
    IF CredentialsMissing(c)
    THEN [raised |-> TRUE, exc |-> "ValueError", msg |-> MissingCredentialsMsg,
          calls |-> <<>>, reddit |-> "none"]
    ELSE IF up.first = "ok"
    THEN [raised |-> FALSE, exc |-> "", msg |-> "",
          calls |-> <<Call("Reddit", 0), Call("user.me", 0)>>, reddit |-> "primary"]
    ELSE LET tried == IF up.first = "ctor_raises"
                      THEN <<Call("Reddit", 0)>>
                      ELSE <<Call("Reddit", 0), Call("user.me", 0)>>
         IN IF up.second = "ok"
            THEN [raised |-> FALSE, exc |-> "", msg |-> "",
                  calls |-> tried \o <<Call("Reddit", 0)>>, reddit |-> "fallback"]
            ELSE [raised |-> TRUE, exc |-> "Exception", msg |-> UpstreamMsg,
                  calls |-> tried \o <<Call("Reddit", 0)>>, reddit |-> "none"]

----------------------------------------------------------------------------
(* Source Fetcher: _fetch_source, _fetch_subreddit, _extract_post_data *)

DefaultLimit == 20

\* Submissions the upstream client can yield.  Reading the attributes of t3
\* raises (a post the client cannot load), so its extraction raises; its id,
\* which the listing itself carries, stays readable.
Submissions ==
    { [id |-> "t1", is_self |-> TRUE,  selftext |-> "body", author |-> "u1",
       created_utc |-> 1700000000, readable |-> TRUE],
      [id |-> "t2", is_self |-> FALSE, selftext |-> "", author |-> None,
       created_utc |-> 1700000100, readable |-> TRUE],
      [id |-> "t3", is_self |-> TRUE,  selftext |-> "gone", author |-> "u3",
       created_utc |-> 1700000200, readable |-> FALSE] }

\* Does _extract_post_data raise on this submission?
ExtractRaises(sub) == ~sub.readable

\* _extract_post_data, lines 165-194 (the fields the properties read).
ExtractPostData(sub, name) ==
    [ platform |-> "Reddit",
      source_name |-> <<"/r/", name>>,
      thread_id |-> sub.id,
      text |-> IF sub.is_self THEN sub.selftext ELSE "",
      author |-> IF sub.author # None THEN sub.author ELSE "[deleted]",
      created_utc |-> sub.created_utc,
      signal_batch |-> << [thread_id |-> sub.id,
                           text |-> IF sub.is_self THEN sub.selftext ELSE ""] >> ]

\* The loop of lines 148-157: a submission whose extraction raises is skipped.
\* Faulty variant: the first failing submission ends the loop.
RECURSIVE ProcessSubmissionsMutAbort(_, _)
ProcessSubmissionsMutAbort(listing, name) ==
    IF listing = <<>> THEN <<>>
    ELSE IF ExtractRaises(Head(listing)) THEN <<>>
         ELSE <<ExtractPostData(Head(listing), name)>>
              \o ProcessSubmissionsMutAbort(Tail(listing), name)
RECURSIVE ProcessSubmissions(_, _)
ProcessSubmissions(listing, name) ==
    IF listing = <<>> THEN <<>>
    ELSE IF ExtractRaises(Head(listing))
         THEN ProcessSubmissions(Tail(listing), name)
         ELSE <<ExtractPostData(Head(listing), name)>>
              \o ProcessSubmissions(Tail(listing), name)

\* Which listing call lines 125-145 make.
ListingMethod(source) ==
    IF Get(source, "search_keywords", <<>>) # <<>> THEN "search"
    ELSE LET sort_type == Get(source, "sort", "hot") IN
         IF sort_type \in {"hot", "new", "top", "rising"} THEN sort_type ELSE "hot"

SubredditName(source) == Or(Get(source, "name", None), Get(source, "subreddit", None))

Limit(source) == Get(source, "limit", DefaultLimit)

Range(q) == { q[k] : k \in 1..Len(q) }

\* Sequences over S without repetition, of length at most n.
RECURSIVE SeqsNoRep(_, _)
SeqsNoRep(S, n) ==
    IF n = 0 THEN {<<>>}
    ELSE LET shorter == SeqsNoRep(S, n - 1) IN
         shorter \cup UNION { { Append(q, x) : x \in S \ Range(q) } : q \in shorter }

\* What the upstream does for one source: the submissions its listing yields
\* (at most `limit` of them, praw's ListingGenerator stops there), and whether
\* the client raises (subreddit not found, network error) after yielding them.
Upstreams(source) ==
    [ listing : SeqsNoRep(Submissions, Min(Limit(source), MaxUpstream)),
      raises : BOOLEAN ]

\* _fetch_subreddit, lines 104-161.
FetchSubreddit(source, i, up) ==
    LET subreddit_name == SubredditName(source) IN
    IF ~Truthy(subreddit_name)
    THEN [raised |-> TRUE, exc |-> "ValueError", msg |-> NameRequiredMsg,
          data |-> <<>>, calls |-> <<>>, listing |-> <<>>, partial |-> 0]
    ELSE LET made == <<Call("subreddit", i), Call(ListingMethod(source), i)>> IN
         IF up.raises
         THEN [raised |-> TRUE, exc |-> "Exception", msg |-> UpstreamMsg,
               data |-> <<>>, calls |-> made, listing |-> <<>>,
               partial |-> Len(ProcessSubmissions(up.listing, subreddit_name))]
         ELSE [raised |-> FALSE, exc |-> "", msg |-> "",
               data |-> ProcessSubmissions(up.listing, subreddit_name),
               calls |-> made, listing |-> up.listing, partial |-> 0]

\* _fetch_source, lines 95-102.
FetchSource(source, i, up) ==
    IF Get(source, "type", "subreddit") = "subreddit"
    THEN FetchSubreddit(source, i, up)
    ELSE [raised |-> TRUE, exc |-> "ValueError", msg |-> UnsupportedTypeMsg,
          data |-> <<>>, calls |-> <<>>, listing |-> <<>>, partial |-> 0]

----------------------------------------------------------------------------
(* Requests *)

\* Source descriptors a request can carry: a named subreddit with a limit
\* and a comment depth; a subreddit under the alternative key with keywords,
\* the default limit and comment depth 0; a subreddit source without a
\* name; a source of an unsupported type.
SourceSpecs ==
    { [type |-> "subreddit", name |-> "x", limit |-> 1, sort |-> "top",
       comment_depth |-> 2],
      [subreddit |-> "y", search_keywords |-> <<"k1", "k2">>, comment_depth |-> 0],
      [type |-> "subreddit", limit |-> 1],
      [type |-> "user", name |-> "x"] }

SourceLists == UNION { [1..n -> SourceSpecs] : n \in 0..MaxSources }

\* Credential settings of a scrape request: the config's credential keys and
\* the environment.
RunCredentials ==
    { [cfg |-> [client_id |-> "c1", client_secret |-> "c2"],
       env |-> <<>>],
      [cfg |-> [clientId |-> "c1", client_id |-> ""],
       env |-> [REDDIT_CLIENT_SECRET |-> "e2", REDDIT_USER_AGENT |-> "e3"]],
      [cfg |-> <<>>,
       env |-> <<>>],
      [cfg |-> [client_id |-> "c1", userAgent |-> "c3"],
       env |-> [REDDIT_CLIENT_ID |-> "e1", REDDIT_CLIENT_SECRET |-> ""]],
      [cfg |-> [clientSecret |-> "c2"],
       env |-> [REDDIT_CLIENT_ID |-> ""]] }

ConfigCredentialKeys ==
    {"client_id", "clientId", "client_secret", "clientSecret", "user_agent", "userAgent"}
ConfigValues == {"", "c1", "c2"}
EnvKeys == {"REDDIT_CLIENT_ID", "REDDIT_CLIENT_SECRET", "REDDIT_USER_AGENT"}
EnvValues == {"", "e1"}

NoCredentials == [client_id |-> None, client_secret |-> None, user_agent |-> None]
NoResponse == [status |-> 0, detail |-> <<>>, count |-> 0]

Sources == Get(config, "sources", <<>>)

----------------------------------------------------------------------------
(* POST /scrape: main.py scrape, lines 81-112 *)

\* The except clauses of scrape: ValueError answers 400, anything else 500.
\* Faulty variant: no except ValueError clause.
StatusForMutAll500(exc) == 500
StatusFor(exc) == IF exc = "ValueError" THEN 400 ELSE 500

ErrorResponse(exc, msg) ==
    [ status |-> StatusFor(exc),
      detail |-> IF exc = "ValueError" THEN <<msg>> ELSE <<"Scraping failed: ", msg>>,
      count |-> 0 ]

\* data.extend(source_data), line 82
\* Faulty variant: the new records are put in front.
ExtendDataMutPrepend(d, source_data) == source_data \o d
ExtendData(d, source_data) == d \o source_data

\* `if i < len(sources): time.sleep(1)`, lines 86-87
ShouldSleep(i, n) == i < n

\* the next element of enumerate(sources, 1)
\* Faulty variant: every other source is skipped.
NextIndexMutSkip(i) == i + 2
NextIndex(i) == i + 1

Init ==
    /\ \E rc \in RunCredentials :
         /\ env = rc.env
         /\ \/ \E srcs \in SourceLists : config = rc.cfg @@ [sources |-> srcs]
            \/ config = rc.cfg
    /\ pc = "received"
    /\ creds = NoCredentials
    /\ tag = "unset"
    /\ reddit = "none"
    /\ idx = 0
    /\ data = <<>>
    /\ outcomes = <<>>
    /\ calls = <<>>
    /\ fd = "not_called"
    /\ response = NoResponse

\* scraper = RedditScraper(request.config), line 88
Construct ==
    /\ pc = "received"
    /\ creds' = ResolveCredentials(config, env)
    /\ \E up \in SetupBehaviours :
         LET r == SetupRedditClient(config, env, up) IN
         /\ calls' = calls \o r.calls
         /\ reddit' = r.reddit
         /\ IF r.raised
            THEN /\ response' = ErrorResponse(r.exc, r.msg)
                 /\ pc' = "responded"
            ELSE /\ response' = response
                 /\ pc' = "ready"
    /\ UNCHANGED <<config, env, tag, idx, data, outcomes, fd>>

\* data = scraper.fetch_data(), up to the loop: lines 70-76
FetchDataStart ==
    /\ pc = "ready"
    /\ IF Sources = <<>>
       THEN /\ fd' = "raised"
            /\ response' = ErrorResponse("ValueError", NoSourcesMsg)
            /\ pc' = "responded"
            /\ idx' = idx
       ELSE /\ fd' = "running"
            /\ response' = response
            /\ pc' = "loop"
            /\ idx' = 1
    /\ UNCHANGED <<config, env, creds, tag, reddit, data, outcomes, calls>>

\* source_data = self._fetch_source(source) is entered, line 81
ProcessSource ==
    /\ pc = "loop"
    /\ idx <= Len(Sources)
    /\ pc' = "fetching"
    /\ calls' = Append(calls, Call("fetch_source", idx))
    /\ UNCHANGED <<config, env, creds, tag, reddit, idx, data, outcomes, fd, response>>

Outcome(r, source, i) ==
    [ source |-> i, raised |-> r.raised, exc |-> r.exc, data |-> r.data, listing |-> r.listing,
      partial |-> r.partial, named |-> Truthy(SubredditName(source)),
      limit |-> Limit(source) ]

\* _fetch_source returned: lines 82-87
SourceSucceeds ==
    /\ pc = "fetching"
    /\ \E up \in Upstreams(Sources[idx]) :
         LET r == FetchSource(Sources[idx], idx, up) IN
         /\ ~r.raised
         /\ data' = ExtendData(data, r.data)
         /\ outcomes' = Append(outcomes, Outcome(r, Sources[idx], idx))
         /\ calls' = calls \o r.calls
    /\ IF ShouldSleep(idx, Len(Sources))
       THEN pc' = "sleeping" /\ idx' = idx
       ELSE pc' = "loop" /\ idx' = NextIndex(idx)
    /\ UNCHANGED <<config, env, creds, tag, reddit, fd, response>>

\* _fetch_source raised: lines 89-91
SourceFails ==
    /\ pc = "fetching"
    /\ \E up \in Upstreams(Sources[idx]) :
         LET r == FetchSource(Sources[idx], idx, up) IN
         /\ r.raised
         /\ outcomes' = Append(outcomes, Outcome(r, Sources[idx], idx))
         /\ calls' = calls \o r.calls
    /\ pc' = "loop"
    /\ idx' = NextIndex(idx)
    /\ UNCHANGED <<config, env, creds, tag, reddit, data, fd, response>>

\* time.sleep(1), line 87
Sleep ==
    /\ pc = "sleeping"
    /\ calls' = Append(calls, Call("sleep", idx))
    /\ pc' = "loop"
    /\ idx' = NextIndex(idx)
    /\ UNCHANGED <<config, env, creds, tag, reddit, data, outcomes, fd, response>>

\* return data (line 93) and the ScrapeResponse of main.py lines 95-100
ReturnData ==
    /\ pc = "loop"
    /\ idx > Len(Sources)
    /\ fd' = "returned"
    /\ response' = [status |-> 200, detail |-> <<"success">>, count |-> Len(data)]
    /\ pc' = "responded"
    /\ UNCHANGED <<config, env, creds, tag, reddit, idx, data, outcomes, calls>>

Next ==
    \/ Construct
    \/ FetchDataStart
    \/ ProcessSource
    \/ SourceSucceeds
    \/ SourceFails
    \/ Sleep
    \/ ReturnData

Spec == Init /\ [][Next]_vars

\* Every call of the handler is synchronous and returns or raises, so a step
\* that can be taken is taken.
FairSpec == Spec /\ WF_vars(Next)

----------------------------------------------------------------------------
(* The credential functions on every config and environment *)

CredInit ==
    /\ config \in Dicts(ConfigCredentialKeys, ConfigValues)
    /\ env \in Dicts(EnvKeys, EnvValues)
    /\ pc = "received"
    /\ creds = NoCredentials
    /\ tag = "unset"
    /\ reddit = "none"
    /\ idx = 0
    /\ data = <<>>
    /\ outcomes = <<>>
    /\ calls = <<>>
    /\ fd = "not_called"
    /\ response = NoResponse

\* POST /test-credentials, main.py lines 50-79
TestCredentials ==
    /\ pc = "received"
    /\ tag' = CredentialsSource(config, env)
    /\ pc' = "tested"
    /\ UNCHANGED <<config, env, creds, reddit, idx, data, outcomes, calls, fd, response>>

\* The credential lookup of _setup_reddit_client, lines 17-43
Resolve ==
    /\ pc = "tested"
    /\ creds' = ResolveCredentials(config, env)
    /\ pc' = IF CredentialsMissing(ResolveCredentials(config, env))
             THEN "missing" ELSE "resolved"
    /\ UNCHANGED <<config, env, tag, reddit, idx, data, outcomes, calls, fd, response>>

CredNext == TestCredentials \/ Resolve

CredSpec == CredInit /\ [][CredNext]_vars

----------------------------------------------------------------------------
(* Properties of the scrape orchestrator *)

RECURSIVE ConcatReturned(_)
ConcatReturned(os) ==
    IF os = <<>> THEN <<>>
    ELSE (IF Head(os).raised THEN <<>> ELSE Head(os).data) \o ConcatReturned(Tail(os))

\* C1: for a non-empty source list fetch_data never raises; its data is the
\* concatenation, in source-list order, of the record lists returned by the
\* sources whose fetch did not raise, and a source whose fetch raised
\* contributes nothing (not even the records extracted before it raised).
C1_FaultIsolation ==
    (Sources # <<>> /\ fd # "not_called") =>
        /\ fd # "raised"
        /\ \A k \in 1..Len(outcomes) : outcomes[k].source = k
        /\ data = ConcatReturned(outcomes)
        /\ fd = "returned" =>
             /\ Len(outcomes) = Len(Sources)
             /\ response.status = 200

\* A finished run in which an earlier source raised after records had been
\* extracted from it and a later source returned records.
C1_Witness ==
    /\ fd = "returned"
    /\ \E k, j \in 1..Len(outcomes) :
         /\ k < j
         /\ outcomes[k].raised /\ outcomes[k].partial > 0
         /\ ~outcomes[j].raised /\ Len(outcomes[j].data) > 0

\* C2: a scrape request with an empty source list fails with the "no sources
\* configured" error, and no upstream client call (construction,
\* authentication check, fetch) was made before it.
C2_EmptySourcesBeforeIO ==
    (pc = "responded" /\ Sources = <<>>) =>
        /\ response.status = 400
        /\ response.detail = <<NoSourcesMsg>>
        /\ calls = <<>>

Unresolvable(snake, camel, name) ==
    /\ ~Truthy(Get(config, snake, None))
    /\ ~Truthy(Get(config, camel, None))
    /\ ~Truthy(Getenv(env, name, None))

\* C3: when client_id or client_secret is found neither in the config (under
\* either spelling) nor in the environment, constructing the scraper fails
\* with the missing-credentials error before any upstream client call, and no
\* source is fetched in that request.
C3_MissingCredentials ==
    ( /\ pc # "received"
      /\ \/ Unresolvable("client_id", "clientId", "REDDIT_CLIENT_ID")
         \/ Unresolvable("client_secret", "clientSecret", "REDDIT_CLIENT_SECRET") )
    => /\ pc = "responded"
       /\ response = [status |-> 400, detail |-> <<MissingCredentialsMsg>>, count |-> 0]
       /\ calls = <<>>
       /\ reddit = "none"
       /\ fd = "not_called"
       /\ outcomes = <<>>

\* A request answered with one credential found and the other missing.
C3_Witness ==
    /\ pc = "responded"
    /\ Truthy(creds.client_id)
    /\ Unresolvable("client_secret", "clientSecret", "REDDIT_CLIENT_SECRET")

Readable(listing) == SelectSeq(listing, LAMBDA sub : sub.readable)

\* C5: a source with a non-empty name and limit N that returns, returns at
\* most N records, and they are the upstream submissions whose extraction
\* did not fail, in upstream order; a submission whose extraction raises is
\* skipped and the records around it are kept.
C5_SourceFetcher ==
    \A k \in 1..Len(outcomes) :
        LET o == outcomes[k] IN
        (o.named /\ ~o.raised) =>
            /\ Len(o.data) <= o.limit
            /\ Len(o.data) = Len(Readable(o.listing))
            /\ \A n \in 1..Len(o.data) :
                 /\ o.data[n].thread_id = Readable(o.listing)[n].id
                 /\ o.data[n].platform = "Reddit"

\* A source returned a record that the upstream yielded after a submission
\* whose extraction raised.
C5_Witness ==
    \E k \in 1..Len(outcomes) :
        /\ ~outcomes[k].raised
        /\ Len(outcomes[k].listing) = 2
        /\ ~outcomes[k].listing[1].readable
        /\ Len(outcomes[k].data) = 1

\* C6: every returned record carries a comments list whose entries have a
\* depth between 1 and the source's comment_depth, and a num_comments_scraped
\* equal to the length of that list (both empty / 0 for comment_depth 0).
C6_CommentsAttached ==
    \A k \in 1..Len(outcomes) : \A n \in 1..Len(outcomes[k].data) :
        LET r == outcomes[k].data[n]
            D == Get(Sources[outcomes[k].source], "comment_depth", 0) IN
        /\ "comments" \in DOMAIN r
        /\ "num_comments_scraped" \in DOMAIN r
        /\ r.num_comments_scraped = Len(r.comments)
        /\ \A c \in 1..Len(r.comments) : r.comments[c].depth \in 1..D

SourceLacksName(source) ==
    /\ Get(source, "type", "subreddit") = "subreddit"
    /\ ~Truthy(SubredditName(source))

\* C7 as stated: /scrape answers 400 with a detail for an empty source list
\* and for a source with a missing subreddit name, and answers 200 with
\* count = len(data) only when no such configuration error occurred (read
\* for the requests whose client was constructed).
C7_Original ==
    pc = "responded" =>
        LET configError ==
              \/ Sources = <<>>
              \/ \E k \in 1..Len(Sources) : SourceLacksName(Sources[k]) IN
        /\ (configError /\ reddit # "none") =>
              (response.status = 400 /\ response.detail # <<>>)
        /\ response.status = 200 => (~configError /\ response.count = Len(data))

\* C7 amended: /scrape answers 400 with a detail when the credentials are
\* missing or, the client once constructed, the source list is empty; 500
\* with a detail when constructing the client raises; 200 with count =
\* len(data) otherwise.  A source with a missing subreddit name is skipped
\* and the request still answers 200.
C7_StatusCodes ==
    pc = "responded" =>
        /\ response.status \in {200, 400, 500}
        /\ response.status = 400 <=>
             \/ CredentialsMissing(creds)
             \/ (reddit # "none" /\ Sources = <<>>)
        /\ response.status = 500 <=>
             (~CredentialsMissing(creds) /\ reddit = "none")
        /\ response.status # 200 => (response.detail # <<>> /\ response.count = 0)
        /\ response.status = 200 =>
             /\ response.count = Len(data)
             /\ fd = "returned"
             /\ \A k \in 1..Len(Sources) :
                  SourceLacksName(Sources[k]) =>
                     (outcomes[k].raised /\ outcomes[k].exc = "ValueError")

\* A request answered 200 although one of its sources lacks a name.
C7_Witness ==
    /\ pc = "responded"
    /\ response.status = 200
    /\ response.count > 0
    /\ \E k \in 1..Len(Sources) : SourceLacksName(Sources[k])

Position(op, i) ==
    IF \E n \in 1..Len(calls) : calls[n] = Call(op, i)
    THEN CHOOSE n \in 1..Len(calls) : calls[n] = Call(op, i)
    ELSE 0

\* C8: a finished run over k sources paused exactly once after every source
\* that is not the last, also after one whose fetch failed, before the next
\* source's fetch began, and not after the last: k - 1 pauses.
C8_PauseBetweenSources ==
    fd = "returned" =>
        /\ Len(SelectSeq(calls, LAMBDA c : c.op = "sleep")) = Len(Sources) - 1
        /\ \A k \in 1..(Len(Sources) - 1) :
             /\ Position("fetch_source", k) < Position("sleep", k)
             /\ Position("sleep", k) < Position("fetch_source", k + 1)
        /\ Position("sleep", Len(Sources)) = 0

Fetches == SelectSeq(calls, LAMBDA c : c.op = "fetch_source")

C9_Sequential ==
    /\ \A k \in 1..Len(Fetches) : Fetches[k].idx = k
    /\ Len(Fetches) <= Len(Sources)
    /\ \A k \in 1..Len(outcomes) : outcomes[k].source = k
    /\ Len(outcomes) = IF pc = "fetching" THEN Len(Fetches) - 1 ELSE Len(Fetches)
    /\ pc = "fetching" => idx = Len(Fetches)
    /\ fd = "returned" => Len(Fetches) = Len(Sources)

\* C9: for a non-empty source list the Source Fetcher is invoked exactly once
\* per source, in list order, one at a time (the next fetch starts only after
\* the previous one returned or raised, and a failed source is not fetched
\* again), and the run eventually returns after the last source.
C9_RunLifecycle ==
    /\ [](C9_Sequential)
    /\ (fd = "running") ~> (fd = "returned" /\ pc = "responded")

\* A finished run over two sources whose first source failed.
C9_Witness ==
    /\ fd = "returned"
    /\ Len(Sources) = 2
    /\ outcomes[1].raised
    /\ ~outcomes[2].raised

----------------------------------------------------------------------------
(* Properties of the credential functions *)

CredentialFields ==
    { [field |-> "client_id", snake |-> "client_id", camel |-> "clientId",
       name |-> "REDDIT_CLIENT_ID", default |-> None],
      [field |-> "client_secret", snake |-> "client_secret", camel |-> "clientSecret",
       name |-> "REDDIT_CLIENT_SECRET", default |-> None],
      [field |-> "user_agent", snake |-> "user_agent", camel |-> "userAgent",
       name |-> "REDDIT_USER_AGENT", default |-> DefaultUserAgent] }

\* The non-empty values the config gives a field, under either spelling.
Supplied(cfg, f) ==
    { v \in {Get(cfg, f.snake, None), Get(cfg, f.camel, None)} : Truthy(v) }

OtherSpelling(k) ==
    CASE k = "client_id" -> "clientId"
      [] k = "clientId" -> "client_id"
      [] k = "client_secret" -> "clientSecret"
      [] k = "clientSecret" -> "client_secret"
      [] k = "user_agent" -> "userAgent"
      [] k = "userAgent" -> "user_agent"

\* The config with every credential moved to the other spelling of its key.
SwapSpellings(cfg) ==
    [ k \in { OtherSpelling(j) : j \in DOMAIN cfg } |-> cfg[OtherSpelling(k)] ]

\* C4: per credential field the resolver returns a value the config supplies
\* (non-empty, under the snake_case or the camelCase key) whenever there is
\* one, whatever the environment holds; it returns the environment variable
\* only when the config supplies neither spelling; moving the values to the
\* other spelling of their keys resolves to the same credentials (for a
\* config that does not give the two spellings of a field different values);
\* and user_agent is "RedditScraper/1.0" when the config supplies none and
\* the environment variable is not set.
C4_Resolver ==
    pc \in {"resolved", "missing"} =>
        /\ \A f \in CredentialFields :
             /\ Supplied(config, f) # {} => creds[f.field] \in Supplied(config, f)
             /\ (Supplied(config, f) = {} /\ f.name \in DOMAIN env) =>
                    creds[f.field] = env[f.name]
             /\ (Supplied(config, f) = {} /\ f.name \notin DOMAIN env) =>
                    creds[f.field] = f.default
        /\ (\A f \in CredentialFields : Cardinality(Supplied(config, f)) <= 1) =>
               ResolveCredentials(SwapSpellings(config), env) = creds

\* The config gives client_id under the camelCase key only while the
\* environment holds one too, the secret comes from the environment, and no
\* user agent is given anywhere.
C4_Witness ==
    /\ pc = "resolved"
    /\ "client_id" \notin DOMAIN config
    /\ Truthy(Get(config, "clientId", None))
    /\ HasEnv(env, "REDDIT_CLIENT_ID")
    /\ creds.client_id = config["clientId"]
    /\ ~HasConfig(config, "client_secret", "clientSecret")
    /\ creds.client_secret = env["REDDIT_CLIENT_SECRET"]
    /\ creds.user_agent = DefaultUserAgent

\* The resolver took this field from the environment.
FromEnvironment(f) ==
    /\ Supplied(config, f) = {}
    /\ HasEnv(env, f.name)
    /\ creds[f.field] = env[f.name]

\* The resolver took this field from the config.
FromConfig(f) == creds[f.field] \in Supplied(config, f)

Required == { f \in CredentialFields : f.field # "user_agent" }

\* C10 as stated: the credentials_source tag is "none" exactly when the
\* resolver fails with missing credentials, "environment" only when the
\* resolver takes client_id and client_secret from the environment, and
\* "config" only when it takes them from the config.
C10_Original ==
    pc \in {"resolved", "missing"} =>
        /\ tag = "none" <=> pc = "missing"
        /\ tag = "environment" => \A f \in Required : FromEnvironment(f)
        /\ tag = "config" => \A f \in Required : FromConfig(f)

\* C10 amended: the tag is "none" whenever the resolver fails (and also when
\* it succeeds with one credential from the config and the other from the
\* environment); it is "config" only when the resolver takes both from the
\* config; it is "environment" exactly when the environment holds both, and
\* then the resolver succeeds and takes from the environment just the fields
\* the config does not supply.
C10_TagAgreement ==
    pc \in {"resolved", "missing"} =>
        /\ pc = "missing" => tag = "none"
        /\ tag # "none" => pc = "resolved"
        /\ tag = "config" => \A f \in Required : FromConfig(f)
        /\ tag = "environment" <=> \A f \in Required : HasEnv(env, f.name)
        /\ tag = "environment" =>
             \A f \in Required : IF Supplied(config, f) = {}
                                 THEN FromEnvironment(f) ELSE FromConfig(f)
        /\ (tag = "none" /\ pc = "resolved") =>
             \E f, g \in Required : FromConfig(f) /\ FromEnvironment(g)

\* The tag says "environment" while the resolver takes both credentials from
\* the config.
C10_Witness ==
    /\ pc = "resolved"
    /\ tag = "environment"
    /\ \A f \in Required : FromConfig(f)

====
